---- MODULE Spec2Model ----
(***************************************************************************)
(* comfy-pilot: the node registry (schema catalog), the workflow           *)
(* manipulator (graph mutator) and the workflow validator.                 *)
(*                                                                         *)
(* Python strings that are parsed or formatted (node ids, link sources)    *)
(* are sequences of one-character strings, so int() and str() are          *)
(* computed digit by digit.  Class types, input names and type tags are    *)
(* only compared for equality and are TLA+ strings.                        *)
(***************************************************************************)
EXTENDS Integers, Sequences, FiniteSets, TLC

VARIABLES
    \* NodeRegistry
    nodes,          \* self._nodes : class_type -> NodeDefinition
    last_fetch,     \* self._last_fetch
    fetched,        \* self._fetched
    clock,          \* time.time()
    task,           \* the fetch() coroutines: pc and the local `now`
    snapshot,       \* history: the entry set last installed completely
    succeeded,      \* history: some fetch() has returned True after a network call
    call,           \* history: the last fetch() step and the state before it
    \* WorkflowManipulator
    workflow,       \* self.workflow : node id -> node
    next_node_id,   \* self._next_node_id
    op,             \* history: the last manipulator call, its result, the graph before
    hist,           \* history: how the graph came about since construction or the last load
    origin,         \* history: the mapping given to the constructor and what the caller sees of it
    \* WorkflowValidator / WorkflowManipulator.validate
    result,         \* the last ValidationResult (or the raised fault)
    self_check,     \* the last (is_valid, errors) of WorkflowManipulator.validate
    rendered,       \* the last text of ValidationResult.format_for_agent, line by line
    \* WorkflowManipulator.extract_workflow_from_response
    response,       \* the agent's response text
    extracted       \* what the last extraction returned

registryVars == <<nodes, last_fetch, fetched, clock, task, snapshot, succeeded, call>>
graphVars == <<workflow, next_node_id, op, hist, origin>>
checkVars == <<result, self_check, rendered>>
extractVars == <<response, extracted>>
vars == <<nodes, last_fetch, fetched, clock, task, snapshot, succeeded, call,
          workflow, next_node_id, op, hist, origin, result, self_check, rendered,
          response, extracted>>

(***************************************************************************)
(* Python values                                                           *)
(***************************************************************************)
StrV(s) == [t |-> "str", n |-> 0, s |-> s]
IntV(n) == [t |-> "int", n |-> n, s |-> <<>>]
NoneV == [t |-> "none", n |-> 0, s |-> <<>>]

DigitChars == <<"0", "1", "2", "3", "4", "5", "6", "7", "8", "9">>

IsDigit(c) == \E i \in 1..10 : DigitChars[i] = c

DigitVal(c) == (CHOOSE i \in 1..10 : DigitChars[i] = c) - 1

RECURSIVE DigitsVal(_)
DigitsVal(s) ==
    IF s = <<>> THEN 0
    ELSE 10 * DigitsVal(SubSeq(s, 1, Len(s) - 1)) + DigitVal(s[Len(s)])

\* int(k) for a str k: an optional sign and at least one digit, else ValueError.
PyInt(s) ==
    LET signed == Len(s) > 0 /\ s[1] \in {"-", "+"}
        body == IF signed THEN Tail(s) ELSE s
    IN  IF body # <<>> /\ \A i \in 1..Len(body) : IsDigit(body[i])
        THEN [ok |-> TRUE,
              v |-> IF signed /\ s[1] = "-" THEN 0 - DigitsVal(body) ELSE DigitsVal(body)]
        ELSE [ok |-> FALSE, v |-> 0]

RECURSIVE NatStr(_)
NatStr(n) ==
    IF n < 10 THEN <<DigitChars[n + 1]>>
    ELSE Append(NatStr(n \div 10), DigitChars[(n % 10) + 1])

\* str(n) for an int n.
PyStr(n) == IF n < 0 THEN <<"-">> \o NatStr(0 - n) ELSE NatStr(n)

\* str(v) for a scalar v.
StrOf(v) ==
    CASE v.t = "str" -> v.s
      [] v.t = "int" -> PyStr(v.n)
      [] OTHER -> <<"N", "o", "n", "e">>

\* The elements of a finite set in a fixed order (dict iteration).
RECURSIVE SetToSeq(_)
SetToSeq(S) ==
    IF S = {} THEN <<>>
    ELSE LET x == CHOOSE y \in S : TRUE IN <<x>> \o SetToSeq(S \ {x})

RECURSIVE Flatten(_)
Flatten(ss) == IF ss = <<>> THEN <<>> ELSE Head(ss) \o Flatten(Tail(ss))

EmptyMap == <<>>

(***************************************************************************)
(* NodeRegistry: the /object_info payload and its parsing                  *)
(***************************************************************************)
CACHE_TTL == 300

\* One raw input specification: [type_info, constraints?] or something else.
RawSpec(type_kind, type, options, lo, hi) ==
    [kind |-> "list", type_kind |-> type_kind, type |-> type, options |-> options,
     has_min |-> lo # <<>>, min |-> IF lo # <<>> THEN lo[1] ELSE 0,
     has_max |-> hi # <<>>, max |-> IF hi # <<>> THEN hi[1] ELSE 0]

RawSpecOther ==
    [kind |-> "other", type_kind |-> "other", type |-> "", options |-> {},
     has_min |-> FALSE, min |-> 0, has_max |-> FALSE, max |-> 0]

\* One raw entry of the payload: a record (dict) or something else.
RawInfo(output, input_kind, required, optional) ==
    [kind |-> "dict", output |-> output, input_kind |-> input_kind,
     required |-> required, optional |-> optional]

RawInfoOther ==
    [kind |-> "other", output |-> <<>>, input_kind |-> "absent",
     required |-> EmptyMap, optional |-> EmptyMap]

InputDefinition(name, type, required) ==
    [name |-> name, type |-> type, required |-> required,
     has_min |-> FALSE, min_val |-> 0, has_max |-> FALSE, max_val |-> 0,
     options |-> {}]

\* NodeRegistry._parse_input_spec
ParseInputSpec(name, spec, required) ==
    LET input_def == InputDefinition(name, "UNKNOWN", required)
    IN  IF spec.kind # "list" THEN input_def
        ELSE LET typed ==
                     CASE spec.type_kind = "str" -> [input_def EXCEPT !.type = spec.type]
                       [] spec.type_kind = "list" ->
                            [input_def EXCEPT !.type = "COMBO", !.options = spec.options]
                       [] OTHER -> input_def
             IN  [typed EXCEPT !.has_min = spec.has_min, !.min_val = spec.min,
                               !.has_max = spec.has_max, !.max_val = spec.max]

\* info.get(...) and input_info.get(...) raise AttributeError on a non-dict.
ParseRaises(info) == info.kind # "dict" \/ info.input_kind = "other"

\* NodeRegistry._parse_node_info, for an info it does not raise on.
ParseNodeInfo(class_type, info) ==
    [class_type |-> class_type,
     inputs_required |->
        [nm \in DOMAIN info.required |-> ParseInputSpec(nm, info.required[nm], TRUE)],
     inputs_optional |->
        [nm \in DOMAIN info.optional |-> ParseInputSpec(nm, info.optional[nm], FALSE)],
     output_types |-> info.output]

\* A decoded response body: a mapping (its items in order) or something else.
Payload(items) == [kind |-> "dict", items |-> items]
PayloadOther == [kind |-> "other", items |-> <<>>]

\* The loop of fetch() over the first k items of data: the entries installed.
RECURSIVE Installed(_, _)
Installed(items, k) ==
    IF k = 0 THEN EmptyMap
    ELSE LET prev == Installed(items, k - 1)
             it == items[k]
         IN  [c \in DOMAIN prev \cup {it.class_type} |->
                 IF c = it.class_type THEN ParseNodeInfo(c, it.info) ELSE prev[c]]

\* The index of the first item whose parsing raises, 0 if none does.
FirstRaise(items) ==
    IF \E i \in 1..Len(items) : ParseRaises(items[i].info)
    THEN CHOOSE i \in 1..Len(items) :
            /\ ParseRaises(items[i].info)
            /\ \A j \in 1..(i - 1) : ~ParseRaises(items[j].info)
    ELSE 0

\* Lines 75-82 of fetch(), run without suspension on the decoded data.
\* Gives the registry fields after it and how the call ends.
Install(data, now, old) ==
    IF data.kind # "dict"
    THEN [nodes |-> EmptyMap, last_fetch |-> old.last_fetch, fetched |-> old.fetched,
          ret |-> "raise"]
    ELSE IF FirstRaise(data.items) # 0
    THEN [nodes |-> Installed(data.items, FirstRaise(data.items) - 1),
          last_fetch |-> old.last_fetch, fetched |-> old.fetched, ret |-> "raise"]
    ELSE [nodes |-> Installed(data.items, Len(data.items)),
          last_fetch |-> now, fetched |-> TRUE, ret |-> "true"]

\* The window test with the boundary included.
DebouncedInclusive(now) == fetched /\ (now - last_fetch) <= CACHE_TTL

\* fetch(), line 60: the cached snapshot is fresh.
Debounced(now) == fetched /\ (now - last_fetch) < CACHE_TTL

\* Loaded whenever entries are held, fetched or not.
HasEntries(reg) == DOMAIN reg.nodes # {}

\* Loaded as soon as a fetch has succeeded, whatever it brought.
IsLoadedOnceFetched(reg) == reg.fetched

\* NodeRegistry.is_loaded
IsLoaded(reg) == reg.fetched /\ DOMAIN reg.nodes # {}

(***************************************************************************)
(* NodeRegistry.fetch as concurrent coroutines                             *)
(***************************************************************************)
Tasks == {"t1", "t2"}

StartClock == 1000
TickStep == 150
MaxTicks == 3

LoadInfo == RawInfo(<<"IMAGE">>, "absent", EmptyMap, EmptyMap)

BlurInfo ==
    RawInfo(<<"IMAGE", "*">>, "dict",
            [nm \in {"image", "amount"} |->
                IF nm = "image" THEN RawSpec("str", "IMAGE", {}, <<>>, <<>>)
                ELSE RawSpec("str", "INT", {}, <<0>>, <<10>>)],
            [nm \in {"mode", "any"} |->
                IF nm = "mode" THEN RawSpec("list", "", {<<"a">>, <<"b">>}, <<>>, <<>>)
                ELSE RawSpec("str", "*", {}, <<>>, <<>>)])

\* A Blur that requires the input image of type IMAGE and nothing else.
BlurImageInfo ==
    RawInfo(<<"IMAGE">>, "dict",
            [nm \in {"image"} |-> RawSpec("str", "IMAGE", {}, <<>>, <<>>)], EmptyMap)

Item(class_type, info) == [class_type |-> class_type, info |-> info]

PayloadFull == Payload(<<Item("Load", LoadInfo), Item("Blur", BlurInfo)>>)
PayloadSmall == Payload(<<Item("Load", LoadInfo)>>)
PayloadEmpty == Payload(<<>>)
\* LoadImage without inputs and with the output IMAGE, Blur requiring image.
PayloadScenario == Payload(<<Item("LoadImage", LoadInfo), Item("Blur", BlurImageInfo)>>)
\* A Blur whose input amount is declared twice: required as an INT between
\* 0 and 10, optional as a choice of "a" and "b".
BlurTwiceInfo ==
    RawInfo(<<"IMAGE", "*">>, "dict",
            [nm \in {"image", "amount"} |->
                IF nm = "image" THEN RawSpec("str", "IMAGE", {}, <<>>, <<>>)
                ELSE RawSpec("str", "INT", {}, <<0>>, <<10>>)],
            [nm \in {"amount", "mode"} |-> RawSpec("list", "", {<<"a">>, <<"b">>}, <<>>, <<>>)])

PayloadTwice == Payload(<<Item("Load", LoadInfo), Item("Blur", BlurTwiceInfo)>>)
\* Decodes, but one entry is not a record.
PayloadBadEntry == Payload(<<Item("Load", LoadInfo), Item("Blur", RawInfoOther)>>)

PayloadPool == {PayloadFull, PayloadSmall, PayloadEmpty, PayloadOther, PayloadBadEntry}

Malformed(data) == data.kind # "dict" \/ FirstRaise(data.items) # 0

RegistryFields == [nodes |-> nodes, last_fetch |-> last_fetch, fetched |-> fetched]

NoCall ==
    [kind |-> "none", ret |-> "none", failed |-> FALSE, now |-> 0,
     pre |-> [nodes |-> EmptyMap, last_fetch |-> 0, fetched |-> FALSE],
     pre_task |-> [t \in Tasks |-> [pc |-> "idle", now |-> 0]]]

InitRegistry ==
    /\ nodes = EmptyMap
    /\ last_fetch = 0
    /\ fetched = FALSE
    /\ clock = StartClock
    /\ task = [t \in Tasks |-> [pc |-> "idle", now |-> 0]]
    /\ snapshot = EmptyMap
    /\ succeeded = FALSE
    /\ call = NoCall

\* fetch() lines 59-61: the snapshot is fresh, True without a network call.
FetchCached(t) ==
    /\ task[t].pc = "idle"
    /\ Debounced(clock)
    /\ call' = [kind |-> "cached", ret |-> "true", failed |-> FALSE, now |-> clock,
                pre |-> RegistryFields, pre_task |-> task]
    /\ UNCHANGED <<nodes, last_fetch, fetched, clock, task, snapshot, succeeded>>

\* fetch() lines 59-68: the request is issued and the coroutine suspends.
FetchRequest(t) ==
    /\ task[t].pc = "idle"
    /\ ~Debounced(clock)
    /\ task' = [task EXCEPT ![t] = [pc |-> "await", now |-> clock]]
    /\ call' = [kind |-> "request", ret |-> "none", failed |-> FALSE, now |-> clock,
                pre |-> RegistryFields, pre_task |-> task]
    /\ UNCHANGED <<nodes, last_fetch, fetched, clock, snapshot, succeeded>>

\* fetch() lines 69-73: a status other than 200, a transport error, the
\* timeout, or a body that does not decode.
FetchFail(t) ==
    /\ task[t].pc = "await"
    /\ task' = [task EXCEPT ![t] = [pc |-> "idle", now |-> 0]]
    /\ call' = [kind |-> "fail", ret |-> "false", failed |-> TRUE, now |-> task[t].now,
                pre |-> RegistryFields, pre_task |-> task]
    /\ UNCHANGED <<nodes, last_fetch, fetched, clock, snapshot, succeeded>>

\* fetch() lines 71-82: the body decoded to data; the rest runs unsuspended.
FetchInstall(t, data) ==
    /\ task[t].pc = "await"
    /\ LET after == Install(data, task[t].now, RegistryFields)
       IN  /\ nodes' = after.nodes
           /\ last_fetch' = after.last_fetch
           /\ fetched' = after.fetched
           /\ snapshot' = IF after.ret = "true" THEN after.nodes ELSE snapshot
           /\ succeeded' = (succeeded \/ after.ret = "true")
           /\ call' = [kind |-> "install", ret |-> after.ret, failed |-> Malformed(data),
                       now |-> task[t].now, pre |-> RegistryFields, pre_task |-> task]
    /\ task' = [task EXCEPT ![t] = [pc |-> "idle", now |-> 0]]
    /\ UNCHANGED clock

Tick ==
    /\ clock < StartClock + MaxTicks * TickStep
    /\ clock' = clock + TickStep
    /\ UNCHANGED <<nodes, last_fetch, fetched, task, snapshot, succeeded, call>>

(***************************************************************************)
(* Workflows: node id -> node, as decoded from JSON or built by the        *)
(* manipulator                                                             *)
(***************************************************************************)
\* An input value: a literal scalar or a list (a list of 2 is a link).
Lit(v) == [k |-> "lit", e |-> <<v>>]
List(es) == [k |-> "list", e |-> es]
Link(src, slot) == List(<<src, slot>>)

\* isinstance(value, list) and len(value) == 2
IsLink(value) == value.k = "list" /\ Len(value.e) = 2

\* A node that is a dict; inputs_kind "absent": no "inputs" key, "other": an
\* "inputs" value that is not a mapping (a JSON array).
DictNode(has_class_type, class_type, inputs_kind, inputs, has_meta, title) ==
    [kind |-> "dict", has_class_type |-> has_class_type, class_type |-> class_type,
     inputs_kind |-> inputs_kind, inputs |-> inputs, has_meta |-> has_meta,
     title |-> title]

\* A node entry that is not a dict: a non-empty string or null.
OtherNode(kind) ==
    [kind |-> kind, has_class_type |-> FALSE, class_type |-> "",
     inputs_kind |-> "absent", inputs |-> EmptyMap, has_meta |-> FALSE, title |-> ""]

\* bool(node)
Truthy(node) ==
    CASE node.kind = "dict" ->
            node.has_class_type \/ node.inputs_kind # "absent" \/ node.has_meta
      [] node.kind = "str" -> TRUE
      [] OTHER -> FALSE

\* node_data.get("class_type", "")
ClassTypeOf(node) == IF node.has_class_type THEN node.class_type ELSE ""

\* node_data.get("inputs", {})
InputsOf(node) ==
    IF node.inputs_kind = "absent" THEN [kind |-> "dict", map |-> EmptyMap]
    ELSE [kind |-> node.inputs_kind, map |-> node.inputs]

\* The input names of a mapping in iteration order.
Names(inputs) == SetToSeq(DOMAIN inputs.map)

(***************************************************************************)
(* NodeRegistry lookups                                                    *)
(***************************************************************************)
\* The characters of the class types that occur.
Spell(class_type) ==
    CASE class_type = "Load" -> <<"L", "o", "a", "d">>
      [] class_type = "LoadImage" -> <<"L", "o", "a", "d", "I", "m", "a", "g", "e">>
      [] class_type = "Blur" -> <<"B", "l", "u", "r">>
      [] class_type = "Blur2" -> <<"B", "l", "u", "r", "2">>
      [] class_type = "Nope" -> <<"N", "o", "p", "e">>
      [] OTHER -> <<>>

\* These characters in code point order.
CodePoints == <<"2", "B", "I", "L", "N", "a", "d", "e", "g", "l", "m", "o", "p", "r", "u">>

Ord(c) == CHOOSE i \in 1..Len(CodePoints) : CodePoints[i] = c

\* a < b for two str
StrLess(a, b) ==
    \E k \in 1..(Len(b)) :
        /\ \A m \in 1..(k - 1) : m <= Len(a) /\ a[m] = b[m]
        /\ k > Len(a) \/ Ord(a[k]) < Ord(b[k])

\* SequenceMatcher.find_longest_match: the longest block a[i..i+k-1] =
\* b[j..j+k-1], the earliest in a, then the earliest in b; k = 0 if none.
FindLongestMatch(a, b) ==
    LET blocks == {t \in (1..Len(a)) \X (1..Len(b)) \X (1..Len(a)) :
                      /\ t[1] + t[3] - 1 <= Len(a)
                      /\ t[2] + t[3] - 1 <= Len(b)
                      /\ \A d \in 0..(t[3] - 1) : a[t[1] + d] = b[t[2] + d]}
    IN  IF blocks = {} THEN <<1, 1, 0>>
        ELSE CHOOSE t \in blocks :
                \A u \in blocks :
                    \/ u[3] < t[3]
                    \/ u[3] = t[3] /\ t[1] < u[1]
                    \/ u[3] = t[3] /\ t[1] = u[1] /\ t[2] <= u[2]

\* The sum of the sizes of SequenceMatcher.get_matching_blocks: the longest
\* block, then the same to its left and to its right.
RECURSIVE MatchingChars(_, _)
MatchingChars(a, b) ==
    LET t == FindLongestMatch(a, b)
    IN  IF t[3] = 0 THEN 0
        ELSE t[3]
             + MatchingChars(SubSeq(a, 1, t[1] - 1), SubSeq(b, 1, t[2] - 1))
             + MatchingChars(SubSeq(a, t[1] + t[3], Len(a)), SubSeq(b, t[2] + t[3], Len(b)))

\* SequenceMatcher.ratio() = 2.0 * matches / total, as the pair of the two.
Ratio(a, b) == [matches |-> 2 * MatchingChars(a, b), total |-> Len(a) + Len(b)]

\* A threshold of 0.9.
ClearsNarrowCutoff(r) == r.total > 0 /\ 10 * r.matches >= 9 * r.total

\* ratio() >= cutoff with cutoff = 0.6 (an empty pair has ratio 1.0)
ClearsCutoff(r) == IF r.total = 0 THEN TRUE ELSE 10 * r.matches >= 6 * r.total

\* NodeRegistry.suggest_similar, its first element: the known class type of
\* the highest ratio among those that clear the cutoff, the greater name on
\* equal ratios; <<>> when none clears it.
SuggestSimilar(reg, class_type) ==
    LET score(x) == Ratio(Spell(x), Spell(class_type))
        close == {x \in DOMAIN reg.nodes : ClearsCutoff(score(x))}
        above(x, y) ==
            \/ score(x).matches * score(y).total > score(y).matches * score(x).total
            \/ /\ score(x).matches * score(y).total = score(y).matches * score(x).total
               /\ StrLess(Spell(y), Spell(x))
    IN  IF close = {} THEN <<>>
        ELSE <<CHOOSE x \in close : \A y \in close \ {x} : above(x, y)>>

\* NodeRegistry.node_exists
NodeExists(reg, class_type) == class_type \in DOMAIN reg.nodes

\* NodeRegistry.get_output_type: [raised, found, type]
GetOutputType(reg, class_type, slot_index) ==
    IF class_type \notin DOMAIN reg.nodes
    THEN [raised |-> FALSE, found |-> FALSE, type |-> ""]
    ELSE IF slot_index.t # "int"
    THEN [raised |-> TRUE, found |-> FALSE, type |-> ""]
    ELSE LET outs == reg.nodes[class_type].output_types
         IN  IF 0 <= slot_index.n /\ slot_index.n < Len(outs)
             THEN [raised |-> FALSE, found |-> TRUE, type |-> outs[slot_index.n + 1]]
             ELSE [raised |-> FALSE, found |-> FALSE, type |-> ""]

\* NodeRegistry.get_input_type: required first, then optional
GetInputType(reg, class_type, input_name) ==
    IF class_type \notin DOMAIN reg.nodes
    THEN [found |-> FALSE, type |-> "", required |-> FALSE]
    ELSE LET node == reg.nodes[class_type]
         IN  IF input_name \in DOMAIN node.inputs_required
             THEN [found |-> TRUE, type |-> node.inputs_required[input_name].type,
                   required |-> TRUE]
             ELSE IF input_name \in DOMAIN node.inputs_optional
             THEN [found |-> TRUE, type |-> node.inputs_optional[input_name].type,
                   required |-> FALSE]
             ELSE [found |-> FALSE, type |-> "", required |-> FALSE]

\* {**node_def.inputs_required, **node_def.inputs_optional}
AllInputs(node_def) ==
    [nm \in DOMAIN node_def.inputs_required \cup DOMAIN node_def.inputs_optional |->
        IF nm \in DOMAIN node_def.inputs_optional THEN node_def.inputs_optional[nm]
        ELSE node_def.inputs_required[nm]]

(***************************************************************************)
(* WorkflowValidator                                                       *)
(***************************************************************************)
ValidationIssue(check, node_id, severity, input, note) ==
    [check |-> check, node_id |-> node_id, severity |-> severity, input |-> input,
     note |-> note, suggestion |-> ""]

Checked(raised, issues) == [raised |-> raised, issues |-> issues]

\* The checks one after the other; a fault in one ends them all.
RECURSIVE Chain(_)
Chain(rs) ==
    IF rs = <<>> THEN Checked(FALSE, <<>>)
    ELSE LET rest == Chain(Tail(rs))
         IN  Checked(Head(rs).raised \/ rest.raised, Head(rs).issues \o rest.issues)

\* WorkflowValidator._check_structure
CheckStructure(wf) ==
    LET ids == SetToSeq(DOMAIN wf)
        one(id) ==
            IF wf[id].kind # "dict"
            THEN <<ValidationIssue("invalid_structure", id, "error", "", "")>>
            ELSE (IF ~wf[id].has_class_type
                  THEN <<ValidationIssue("missing_class_type", id, "error", "", "")>>
                  ELSE <<>>)
                 \o
                 (IF wf[id].inputs_kind = "absent"
                  THEN <<ValidationIssue("missing_inputs", id, "error", "", "")>>
                  ELSE <<>>)
    IN  Checked(FALSE, Flatten([i \in 1..Len(ids) |-> one(ids[i])]))

\* WorkflowValidator._check_node_exists
CheckNodeExists(reg, node_id, class_type) ==
    IF class_type = "" THEN Checked(FALSE, <<>>)
    ELSE IF ~NodeExists(reg, class_type)
    THEN LET similar == SuggestSimilar(reg, class_type)
         IN  Checked(FALSE,
                 <<[ValidationIssue("node_not_found", node_id, "error", "", "")
                       EXCEPT !.suggestion = IF similar # <<>> THEN similar[1] ELSE ""]>>)
    ELSE Checked(FALSE, <<>>)

\* Every declared input name, optional ones included.
DeclaredNames(node_def) ==
    DOMAIN node_def.inputs_required \cup DOMAIN node_def.inputs_optional

\* Line 170: the names iterated, those of node_def.inputs_required.
RequiredNames(node_def) == DOMAIN node_def.inputs_required

\* WorkflowValidator._check_required_inputs; `in` on a JSON array is a
\* membership test that finds no name.
CheckRequiredInputs(reg, node_id, class_type, inputs) ==
    IF class_type \notin DOMAIN reg.nodes THEN Checked(FALSE, <<>>)
    ELSE LET req == SetToSeq(RequiredNames(reg.nodes[class_type]))
             present(nm) == inputs.kind = "dict" /\ nm \in DOMAIN inputs.map
         IN  Checked(FALSE,
                 Flatten([i \in 1..Len(req) |->
                     IF ~present(req[i])
                     THEN <<ValidationIssue("required_input_missing", node_id, "error",
                                            req[i], "")>>
                     ELSE <<>>]))

\* WorkflowValidator._check_link_validity; inputs.items() raises
\* AttributeError when inputs is not a mapping.
CheckLinkValidity(node_id, inputs, wf) ==
    IF inputs.kind # "dict" THEN Checked(TRUE, <<>>)
    ELSE LET nms == Names(inputs)
             one(nm) ==
                 LET value == inputs.map[nm]
                 IN  IF IsLink(value) /\ StrOf(value.e[1]) \notin DOMAIN wf
                     THEN <<ValidationIssue("link_invalid", node_id, "error", nm, "")>>
                     ELSE <<>>
         IN  Checked(FALSE, Flatten([i \in 1..Len(nms) |-> one(nms[i])]))

\* The slot test with the boundary excluded.
SlotPastRange(slot_index, output_types) ==
    slot_index.t = "int" /\ slot_index.n > Len(output_types)

\* isinstance(slot_index, int) and slot_index >= len(source_def.output_types)
SlotOutOfRange(slot_index, output_types) ==
    slot_index.t = "int" /\ slot_index.n >= Len(output_types)

\* WorkflowValidator._check_output_slot_range; source_node.get raises
\* AttributeError when the source entry is truthy and not a dict.
CheckOutputSlotRange(reg, node_id, inputs, wf) ==
    IF inputs.kind # "dict" THEN Checked(TRUE, <<>>)
    ELSE LET nms == Names(inputs)
             resolves(value) ==
                 /\ IsLink(value)
                 /\ StrOf(value.e[1]) \in DOMAIN wf
                 /\ Truthy(wf[StrOf(value.e[1])])
             raises(nm) ==
                 resolves(inputs.map[nm]) /\ wf[StrOf(inputs.map[nm].e[1])].kind # "dict"
             one(nm) ==
                 LET value == inputs.map[nm]
                     source_type == ClassTypeOf(wf[StrOf(value.e[1])])
                     slot_index == value.e[2]
                 IN  IF /\ resolves(value)
                        /\ source_type \in DOMAIN reg.nodes
                        /\ SlotOutOfRange(slot_index, reg.nodes[source_type].output_types)
                     THEN <<ValidationIssue("output_slot_out_of_range", node_id, "error",
                                            nm, "")>>
                     ELSE <<>>
         IN  IF \E nm \in DOMAIN inputs.map : raises(nm) THEN Checked(TRUE, <<>>)
             ELSE Checked(FALSE, Flatten([i \in 1..Len(nms) |-> one(nms[i])]))

\* Equal tags only, no wildcard.
CompatibleExact(expected_type, output_type) == output_type = expected_type

\* Lines 257-261: "*" on either side matches anything, else the tags are equal.
Compatible(expected_type, output_type) ==
    expected_type = "*" \/ output_type = "*" \/ output_type = expected_type

\* WorkflowValidator._check_type_compatibility; get_output_type raises
\* TypeError on a slot index that is not a number.
CheckTypeCompatibility(reg, node_id, class_type, inputs, wf) ==
    IF class_type \notin DOMAIN reg.nodes THEN Checked(FALSE, <<>>)
    ELSE IF inputs.kind # "dict" THEN Checked(TRUE, <<>>)
    ELSE LET nms == Names(inputs)
             resolves(value) ==
                 /\ IsLink(value)
                 /\ StrOf(value.e[1]) \in DOMAIN wf
                 /\ Truthy(wf[StrOf(value.e[1])])
             out(value) ==
                 GetOutputType(reg, ClassTypeOf(wf[StrOf(value.e[1])]), value.e[2])
             raises(nm) ==
                 /\ resolves(inputs.map[nm])
                 /\ \/ wf[StrOf(inputs.map[nm].e[1])].kind # "dict"
                    \/ out(inputs.map[nm]).raised
             one(nm) ==
                 LET value == inputs.map[nm]
                     expected == GetInputType(reg, class_type, nm)
                 IN  IF /\ resolves(value)
                        /\ out(value).found
                        /\ out(value).type # ""
                        /\ expected.found
                        /\ ~Compatible(expected.type, out(value).type)
                     THEN <<ValidationIssue("type_mismatch", node_id, "warning",
                                            nm, "")>>
                     ELSE <<>>
         IN  IF \E nm \in DOMAIN inputs.map : raises(nm) THEN Checked(TRUE, <<>>)
             ELSE Checked(FALSE, Flatten([i \in 1..Len(nms) |-> one(nms[i])]))

\* WorkflowValidator._check_value_ranges
CheckValueRanges(reg, node_id, class_type, inputs) ==
    IF class_type \notin DOMAIN reg.nodes THEN Checked(FALSE, <<>>)
    ELSE IF inputs.kind # "dict" THEN Checked(TRUE, <<>>)
    ELSE LET nms == Names(inputs)
             all_inputs == AllInputs(reg.nodes[class_type])
             one(nm) ==
                 LET value == inputs.map[nm]
                 IN  IF /\ value.k # "list"
                        /\ nm \in DOMAIN all_inputs
                        /\ all_inputs[nm].type \in {"INT", "FLOAT"}
                        /\ value.e[1].t = "int"
                     THEN (IF all_inputs[nm].has_min /\ value.e[1].n < all_inputs[nm].min_val
                           THEN <<ValidationIssue("value_out_of_range", node_id, "warning",
                                                  nm, "minimum")>>
                           ELSE <<>>)
                          \o
                          (IF all_inputs[nm].has_max /\ value.e[1].n > all_inputs[nm].max_val
                           THEN <<ValidationIssue("value_out_of_range", node_id, "warning",
                                                  nm, "maximum")>>
                           ELSE <<>>)
                     ELSE <<>>
         IN  Checked(FALSE, Flatten([i \in 1..Len(nms) |-> one(nms[i])]))

\* WorkflowValidator._check_combo_values
CheckComboValues(reg, node_id, class_type, inputs) ==
    IF class_type \notin DOMAIN reg.nodes THEN Checked(FALSE, <<>>)
    ELSE IF inputs.kind # "dict" THEN Checked(TRUE, <<>>)
    ELSE LET nms == Names(inputs)
             all_inputs == AllInputs(reg.nodes[class_type])
             one(nm) ==
                 LET value == inputs.map[nm]
                 IN  IF /\ value.k # "list"
                        /\ nm \in DOMAIN all_inputs
                        /\ all_inputs[nm].type = "COMBO"
                        /\ all_inputs[nm].options # {}
                        /\ value.e[1].t = "str"
                        /\ value.e[1].s \notin all_inputs[nm].options
                     THEN <<ValidationIssue("invalid_combo_value", node_id, "warning",
                                            nm, "")>>
                     ELSE <<>>
         IN  Checked(FALSE, Flatten([i \in 1..Len(nms) |-> one(nms[i])]))

\* The seven checks of one node, lines 105-117 of validate().
CheckNode(reg, node_id, wf) ==
    IF wf[node_id].kind # "dict" THEN Checked(FALSE, <<>>)
    ELSE LET class_type == ClassTypeOf(wf[node_id])
             inputs == InputsOf(wf[node_id])
         IN  Chain(<<CheckNodeExists(reg, node_id, class_type),
                     CheckRequiredInputs(reg, node_id, class_type, inputs),
                     CheckLinkValidity(node_id, inputs, wf),
                     CheckOutputSlotRange(reg, node_id, inputs, wf),
                     CheckTypeCompatibility(reg, node_id, class_type, inputs, wf),
                     CheckValueRanges(reg, node_id, class_type, inputs),
                     CheckComboValues(reg, node_id, class_type, inputs)>>)

\* ValidationResult.errors
Errors(issues) == SelectSeq(issues, LAMBDA i : i.severity = "error")

\* ValidationResult.warnings
Warnings(issues) == SelectSeq(issues, LAMBDA i : i.severity = "warning")

\* One line of the text of format_for_agent: the passed line, the header of
\* the errors (n of them), a numbered error, the header of the warnings, a
\* warning, or the closing line.
Line(kind, n, issue) ==
    [kind |-> kind, n |-> n, check |-> issue.check, node_id |-> issue.node_id,
     input |-> issue.input, suggestion |-> issue.suggestion]

NoIssue == ValidationIssue("", <<>>, "", "", "")

\* ValidationResult.format_for_agent
FormatForAgent(issues) ==
    IF issues = <<>> THEN <<Line("passed", 0, NoIssue)>>
    ELSE LET errors == Errors(issues)
             warnings == Warnings(issues)
         IN  (IF errors # <<>>
              THEN <<Line("errors_header", Len(errors), NoIssue)>>
                   \o [i \in 1..Len(errors) |-> Line("error", i, errors[i])]
              ELSE <<>>)
             \o
             (IF warnings # <<>>
              THEN <<Line("warnings_header", Len(warnings), NoIssue)>>
                   \o [i \in 1..Len(warnings) |-> Line("warning", 0, warnings[i])]
              ELSE <<>>)
             \o <<Line("trailer", 0, NoIssue)>>

\* Validity that counts warnings too.
NoIssues(issues) == Len(issues) = 0

\* len(result.errors) == 0, line 119 of validate()
NoErrors(issues) == Len(Errors(issues)) = 0

\* The empty workflow passed on to the checks, which find nothing.
EmptyWorkflowUnchecked(reg) ==
    [raised |-> FALSE, valid |-> TRUE, issues |-> <<>>,
     node_count |-> 0, against_registry |-> IsLoaded(reg), done |-> TRUE]

\* validate() lines 86-98: the report on an empty workflow.
EmptyWorkflowReport(reg) ==
    [raised |-> FALSE, valid |-> FALSE,
     issues |-> <<ValidationIssue("empty_workflow", <<>>, "error", "", "")>>,
     node_count |-> 0, against_registry |-> IsLoaded(reg), done |-> TRUE]

\* WorkflowValidator.validate
ValidateWorkflow(reg, wf) ==
    IF DOMAIN wf = {}
    THEN EmptyWorkflowReport(reg)
    ELSE LET ids == SetToSeq(DOMAIN wf)
             all == Chain(<<CheckStructure(wf)>> \o
                          (IF IsLoaded(reg)
                           THEN [i \in 1..Len(ids) |-> CheckNode(reg, ids[i], wf)]
                           ELSE <<>>))
         IN  IF all.raised
             THEN [raised |-> TRUE, valid |-> FALSE, issues |-> <<>>,
                   node_count |-> Cardinality(DOMAIN wf),
                   against_registry |-> IsLoaded(reg), done |-> TRUE]
             ELSE [raised |-> FALSE, valid |-> NoErrors(all.issues), issues |-> all.issues,
                   node_count |-> Cardinality(DOMAIN wf),
                   against_registry |-> IsLoaded(reg), done |-> TRUE]

(***************************************************************************)
(* WorkflowManipulator.validate (the manipulator's own structural check)   *)
(***************************************************************************)
SelfError(kind, node_id, input) == [kind |-> kind, node_id |-> node_id, input |-> input]

\* `"class_type" not in node` raises TypeError on None and is a substring
\* test on a str; .items() raises on an inputs value that is not a mapping.
SelfCheckNode(wf, id) ==
    LET node == wf[id]
    IN  IF node.kind = "none" THEN Checked(TRUE, <<>>)
        ELSE IF node.kind = "str"
        THEN Checked(FALSE, <<SelfError("missing_class_type", id, ""),
                              SelfError("missing_inputs", id, "")>>)
        ELSE LET first == IF ~node.has_class_type
                          THEN <<SelfError("missing_class_type", id, "")>> ELSE <<>>
             IN  IF node.inputs_kind = "absent"
                 THEN Checked(FALSE, first \o <<SelfError("missing_inputs", id, "")>>)
                 ELSE IF node.inputs_kind # "dict" THEN Checked(TRUE, <<>>)
                 ELSE LET nms == SetToSeq(DOMAIN node.inputs)
                          one(nm) ==
                              IF /\ IsLink(node.inputs[nm])
                                 /\ StrOf(node.inputs[nm].e[1]) \notin DOMAIN wf
                              THEN <<SelfError("dangling", id, nm)>>
                              ELSE <<>>
                      IN  Checked(FALSE,
                                  first \o Flatten([i \in 1..Len(nms) |-> one(nms[i])]))

\* WorkflowManipulator.validate
SelfCheck(wf) ==
    LET ids == SetToSeq(DOMAIN wf)
        all == Chain([i \in 1..Len(ids) |-> SelfCheckNode(wf, ids[i])])
    IN  IF all.raised
        THEN [raised |-> TRUE, valid |-> FALSE, errors |-> <<>>, done |-> TRUE]
        ELSE [raised |-> FALSE, valid |-> Len(all.issues) = 0, errors |-> all.issues,
              done |-> TRUE]

(***************************************************************************)
(* JSON text, as the document it denotes: json.dumps / json.loads          *)
(***************************************************************************)
JValue(j, sv, nv, items) == [j |-> j, s |-> sv, n |-> nv, items |-> items]
JNull == JValue("null", <<>>, 0, <<>>)
Member(key, val) == [key |-> key, val |-> val]

\* A str as a JSON number's digits would be a str again after loads.
DumpScalarAsText(v) == JValue("string", StrOf(v), 0, <<>>)

\* json.dumps of a scalar: str -> string, int -> number, None -> null
DumpScalar(v) ==
    CASE v.t = "str" -> JValue("string", v.s, 0, <<>>)
      [] v.t = "int" -> JValue("number", <<>>, v.n, <<>>)
      [] OTHER -> JNull

\* json.dumps of an input value: a list becomes an array
DumpValue(value) ==
    IF value.k = "list"
    THEN JValue("array", <<>>, 0, [i \in 1..Len(value.e) |-> DumpScalar(value.e[i])])
    ELSE DumpScalar(value.e[1])

\* json.dumps of a node
DumpNode(node) ==
    CASE node.kind = "str" -> JValue("string", <<"j", "u", "n", "k">>, 0, <<>>)
      [] node.kind = "none" -> JNull
      [] OTHER ->
           LET nms == SetToSeq(DOMAIN node.inputs)
               inputs ==
                   IF node.inputs_kind = "dict"
                   THEN JValue("object", <<>>, 0,
                               [i \in 1..Len(nms) |-> Member(nms[i], DumpValue(node.inputs[nms[i]]))])
                   ELSE JValue("array", <<>>, 0, <<>>)
           IN  JValue("object", <<>>, 0,
                   (IF node.has_class_type
                    THEN <<Member("class_type", JValue("string", node.class_type, 0, <<>>))>>
                    ELSE <<>>)
                   \o (IF node.inputs_kind # "absent" THEN <<Member("inputs", inputs)>> ELSE <<>>)
                   \o (IF node.has_meta
                       THEN <<Member("_meta", JValue("object", <<>>, 0,
                                  <<Member("title", JValue("string", node.title, 0, <<>>))>>))>>
                       ELSE <<>>))

\* WorkflowManipulator.to_json
ToJson(wf) ==
    LET ids == SetToSeq(DOMAIN wf)
    IN  JValue("object", <<>>, 0, [i \in 1..Len(ids) |-> Member(ids[i], DumpNode(wf[ids[i]]))])

\* json.loads of a scalar
LoadScalar(jv) ==
    CASE jv.j = "string" -> StrV(jv.s)
      [] jv.j = "number" -> IntV(jv.n)
      [] OTHER -> NoneV

\* json.loads of an input value
LoadValue(jv) ==
    IF jv.j = "array" THEN List([i \in 1..Len(jv.items) |-> LoadScalar(jv.items[i])])
    ELSE Lit(LoadScalar(jv))

\* The value of the last member with this key (a later key overwrites).
Lookup(members, key) ==
    members[CHOOSE i \in 1..Len(members) :
                /\ members[i].key = key
                /\ \A k \in (i + 1)..Len(members) : members[k].key # key].val

Keys(members) == {members[i].key : i \in 1..Len(members)}

\* json.loads of a node
LoadNode(jv) ==
    CASE jv.j = "string" -> OtherNode("str")
      [] jv.j = "null" -> OtherNode("none")
      [] OTHER ->
           LET keys == Keys(jv.items)
               ins == IF "inputs" \in keys THEN Lookup(jv.items, "inputs") ELSE JNull
               meta == IF "_meta" \in keys THEN Lookup(jv.items, "_meta") ELSE JNull
           IN  DictNode("class_type" \in keys,
                        IF "class_type" \in keys THEN Lookup(jv.items, "class_type").s ELSE "",
                        IF "inputs" \notin keys THEN "absent"
                        ELSE IF ins.j = "object" THEN "dict" ELSE "other",
                        IF ins.j = "object"
                        THEN [nm \in Keys(ins.items) |-> LoadValue(Lookup(ins.items, nm))]
                        ELSE EmptyMap,
                        "_meta" \in keys,
                        IF "_meta" \in keys THEN Lookup(meta.items, "title").s ELSE "")

\* json.loads of a workflow document
Loads(doc) == [id \in Keys(doc.items) |-> LoadNode(Lookup(doc.items, id))]

(***************************************************************************)
(* WorkflowManipulator                                                     *)
(***************************************************************************)
IntKeys(wf) == {PyInt(k).v : k \in DOMAIN wf}

Max(S) == CHOOSE x \in S : \A y \in S : y <= x

\* The maximum taken as the next id.
CalculateNextIdNoIncrement(wf) ==
    IF DOMAIN wf = {} THEN 1
    ELSE IF \E k \in DOMAIN wf : ~PyInt(k).ok THEN 1
    ELSE Max(IntKeys(wf))

\* WorkflowManipulator._calculate_next_id
CalculateNextId(wf) ==
    IF DOMAIN wf = {} THEN 1
    ELSE IF \E k \in DOMAIN wf : ~PyInt(k).ok THEN 1
    ELSE Max(IntKeys(wf)) + 1

\* The clean-up comparing the stored source with the id, without str().
StripLinksRaw(inputs, node_id) ==
    LET keep == {nm \in DOMAIN inputs :
                    ~(IsLink(inputs[nm]) /\ inputs[nm].e[1] = StrV(node_id))}
    IN  [nm \in keep |-> inputs[nm]]

\* remove_node lines 76-79: drop the inputs that link to node_id.
StripLinks(inputs, node_id) ==
    LET keep == {nm \in DOMAIN inputs :
                    ~(IsLink(inputs[nm]) /\ StrOf(inputs[nm].e[1]) = node_id)}
    IN  [nm \in keep |-> inputs[nm]]

\* remove_node lines 71-81 on a graph that holds node_id: node.get raises
\* AttributeError on an entry that is not a dict, .items() on inputs that are
\* not a mapping; the entries before it in iteration order are cleaned.
RemoveFrom(wf, node_id) ==
    LET ids == SetToSeq(DOMAIN wf \ {node_id})
        raises(i) == wf[ids[i]].kind # "dict" \/ wf[ids[i]].inputs_kind = "other"
        first == IF \E i \in 1..Len(ids) : raises(i)
                 THEN CHOOSE i \in 1..Len(ids) :
                         raises(i) /\ \A k \in 1..(i - 1) : ~raises(k)
                 ELSE 0
        pos(id) == CHOOSE i \in 1..Len(ids) : ids[i] = id
    IN  [raised |-> first # 0,
         workflow |->
            [id \in DOMAIN wf \ {node_id} |->
                IF first # 0 /\ pos(id) >= first THEN wf[id]
                ELSE [wf[id] EXCEPT !.inputs = StripLinks(wf[id].inputs, node_id)]]]

\* self.workflow[id]["inputs"][name] = value raises TypeError on an entry
\* that is not a dict or inputs that are a list, KeyError without "inputs".
SetInputRaises(node) == node.kind # "dict" \/ node.inputs_kind # "dict"

SetInput(wf, id, name, value) ==
    [wf EXCEPT ![id].inputs =
        [nm \in DOMAIN wf[id].inputs \cup {name} |->
            IF nm = name THEN value ELSE wf[id].inputs[nm]]]

(***************************************************************************)
(* WorkflowManipulator.extract_workflow_from_response.  A response text is *)
(* a sequence of tokens: a fence (three backticks), the info string that   *)
(* follows an opening fence, a run of words, or the text of a JSON         *)
(* document.                                                               *)
(***************************************************************************)
Token(kind, word, doc) == [kind |-> kind, word |-> word, doc |-> doc]
Fence == Token("fence", "", JNull)
Info(tag) == Token("info", tag, JNull)
Words == Token("words", "", JNull)
JsonText(doc) == Token("json", "", doc)

IsFence(tok) == tok.kind = "fence"

\* The position of the first fence at or after i, 0 if there is none.
NextFence(text, i) ==
    IF \E k \in i..Len(text) : IsFence(text[k])
    THEN CHOOSE k \in i..Len(text) :
            IsFence(text[k]) /\ \A m \in i..(k - 1) : ~IsFence(text[m])
    ELSE 0

\* re.findall(r"```\s*([\s\S]*?)\s*```", response): the fences are paired
\* from the left, the capture is all that stands between a pair, the info
\* string included.
RECURSIVE FindAllFenced(_)
FindAllFenced(text) ==
    LET i == NextFence(text, 1)
        j == IF i = 0 THEN 0 ELSE NextFence(text, i + 1)
    IN  IF j = 0 THEN <<>>
        ELSE <<SubSeq(text, i + 1, j - 1)>> \o FindAllFenced(SubSeq(text, j + 1, Len(text)))

\* The position of the first fence followed by the info string json.
NextJsonFence(text) ==
    LET opens(k) == IsFence(text[k]) /\ k < Len(text) /\ text[k + 1] = Info("json")
    IN  IF \E k \in 1..Len(text) : opens(k)
        THEN CHOOSE k \in 1..Len(text) : opens(k) /\ \A m \in 1..(k - 1) : ~opens(m)
        ELSE 0

\* re.findall(r"```json\s*([\s\S]*?)\s*```", response): the capture starts
\* after the info string and ends before the next fence.
RECURSIVE FindAllJsonFenced(_)
FindAllJsonFenced(text) ==
    LET i == NextJsonFence(text)
        j == IF i = 0 THEN 0 ELSE NextFence(text, i + 2)
    IN  IF j = 0 THEN <<>>
        ELSE <<SubSeq(text, i + 2, j - 1)>>
             \o FindAllJsonFenced(SubSeq(text, j + 1, Len(text)))

\* json.loads(text): a JSON document and nothing else, or JSONDecodeError.
JsonLoads(text) ==
    IF Len(text) = 1 /\ text[1].kind = "json"
    THEN [ok |-> TRUE, data |-> text[1].doc]
    ELSE [ok |-> FALSE, data |-> JNull]

\* Lines 201-204: a dict with a value that is a dict holding "class_type".
LooksLikeWorkflow(data) ==
    /\ data.j = "object"
    /\ \E key \in Keys(data.items) :
          LET v == Lookup(data.items, key)
          IN  v.j = "object" /\ "class_type" \in Keys(v.items)

\* The first candidate that parses and looks like a workflow, 0 if none.
FirstWorkflow(candidates) ==
    LET good(i) == JsonLoads(candidates[i]).ok
                   /\ LooksLikeWorkflow(JsonLoads(candidates[i]).data)
    IN  IF \E i \in 1..Len(candidates) : good(i)
        THEN CHOOSE i \in 1..Len(candidates) : good(i) /\ \A k \in 1..(i - 1) : ~good(k)
        ELSE 0

Extracted(found, data) == [done |-> TRUE, found |-> found, data |-> data]
NoExtract == [done |-> FALSE, found |-> FALSE, data |-> JNull]

\* WorkflowManipulator.extract_workflow_from_response
ExtractWorkflowFromResponse(text) ==
    LET candidates == FindAllJsonFenced(text) \o FindAllFenced(text) \o <<text>>
        first == FirstWorkflow(candidates)
    IN  IF first = 0 THEN Extracted(FALSE, JNull)
        ELSE Extracted(TRUE, JsonLoads(candidates[first]).data)

\* The ids counted by int() and the largest of them, 0 for the empty graph.
Numeric(wf) == \A k \in DOMAIN wf : PyInt(k).ok
Top(wf) == IF DOMAIN wf = {} \/ ~Numeric(wf) THEN 0 ELSE Max(IntKeys(wf))

Called(name, ret, id) ==
    [name |-> name, ret |-> ret, id |-> id, pre |-> workflow, pre_next |-> next_node_id,
     pre_top |-> hist.top]

(***************************************************************************)
(* Specification of the registry: fetch() coroutines against the host      *)
(***************************************************************************)
NoOp ==
    [name |-> "none", ret |-> "none", id |-> <<>>, pre |-> EmptyMap, pre_next |-> 0,
     pre_top |-> 0]
NoHist == [built |-> FALSE, numeric |-> TRUE, top |-> 0, adds |-> 0]
NoResult ==
    [raised |-> FALSE, valid |-> TRUE, issues |-> <<>>, node_count |-> 0,
     against_registry |-> FALSE, done |-> FALSE]
NoSelfCheck == [raised |-> FALSE, valid |-> TRUE, errors |-> <<>>, done |-> FALSE]
NoRendering == [done |-> FALSE, lines |-> <<>>]
\* No constructor call recorded.
NoOrigin ==
    [tracked |-> FALSE, passed |-> EmptyMap, now |-> EmptyMap, shared |-> {}, freed |-> {},
     added |-> <<>>]

InitGraphIdle ==
    /\ workflow = EmptyMap
    /\ next_node_id = 1
    /\ op = NoOp
    /\ hist = NoHist
    /\ origin = NoOrigin

InitCheckIdle ==
    /\ result = NoResult
    /\ self_check = NoSelfCheck
    /\ rendered = NoRendering

InitExtractIdle ==
    /\ response = <<>>
    /\ extracted = NoExtract

InitCatalog == InitRegistry /\ InitGraphIdle /\ InitCheckIdle /\ InitExtractIdle

NextCatalog ==
    \/ \E t \in Tasks : FetchCached(t) /\ UNCHANGED <<graphVars, checkVars, extractVars>>
    \/ \E t \in Tasks : FetchRequest(t) /\ UNCHANGED <<graphVars, checkVars, extractVars>>
    \/ \E t \in Tasks : FetchFail(t) /\ UNCHANGED <<graphVars, checkVars, extractVars>>
    \/ \E t \in Tasks, data \in PayloadPool :
          FetchInstall(t, data) /\ UNCHANGED <<graphVars, checkVars, extractVars>>
    \/ Tick /\ UNCHANGED <<graphVars, checkVars, extractVars>>

SpecCatalog == InitCatalog /\ [][NextCatalog]_vars

\* C1: a fetch() that fails (transport error, timeout, status, malformed
\* payload) returns False without raising and leaves the entries, the fetched
\* flag and the timestamp as they were before the call.
FailedFetchLeavesSnapshot ==
    call.failed => (call.ret = "false" /\ RegistryFields = call.pre)

\* C2: every state a reader can observe holds the complete entry set of one
\* host response or the complete previous set, never a cleared or partly
\* refilled one.
ReadersSeeCompleteSnapshot == nodes = snapshot

\* C3: fetch() returns True without a network call and changes nothing when a
\* fetch has succeeded before and now - last_fetch < 300; otherwise it issues
\* the network call.
DebounceWindow ==
    LET fresh == succeeded /\ (call.now - call.pre.last_fetch) < CACHE_TTL
    IN  /\ call.kind = "cached" =>
              /\ fresh
              /\ call.ret = "true"
              /\ RegistryFields = call.pre
              /\ task = call.pre_task
        /\ call.kind = "request" =>
              /\ ~fresh
              /\ \E t \in Tasks : call.pre_task[t].pc = "idle" /\ task[t].pc = "await"

\* C3 witness: a fetch() 150 time units after a successful one was answered
\* from the cache.
DebounceHit ==
    call.kind = "cached" /\ succeeded /\ call.now - call.pre.last_fetch = TickStep

\* C17 as stated: is_loaded is false as long as no fetch has succeeded, and
\* once it is true it stays true whatever fetches follow.
LoadedOnceLoadedForever ==
    /\ [](~succeeded => ~IsLoaded(RegistryFields))
    /\ [][IsLoaded(RegistryFields) => IsLoaded(RegistryFields)']_vars

\* C17 as amended: is_loaded is true exactly in the states where a fetch has
\* succeeded and the entry set held now is not empty.
LoadedWhileEntriesHeld ==
    IsLoaded(RegistryFields) <=> (succeeded /\ DOMAIN nodes # {})

\* C17 witness: a successful fetch of a payload without entries on a loaded
\* registry.
LoadedThenEmptied ==
    /\ call.kind = "install" /\ call.ret = "true"
    /\ IsLoaded(call.pre)
    /\ ~IsLoaded(RegistryFields)

(***************************************************************************)
(* Specification of the validator: one workflow and one registry state,    *)
(* checked by WorkflowValidator.validate and WorkflowManipulator.validate  *)
(***************************************************************************)
Id1 == <<"1">>
Id2 == <<"2">>

\* Registry states after no fetch, after a fetch of the full payload, and
\* after a fetch that returned an empty mapping.
NeverFetched == [nodes |-> EmptyMap, last_fetch |-> 0, fetched |-> FALSE]

RegistryPool ==
    {NeverFetched} \cup
    {[f \in {"nodes", "last_fetch", "fetched"} |-> Install(data, StartClock, NeverFetched)[f]] :
        data \in {PayloadFull, PayloadEmpty, PayloadScenario, PayloadTwice}}

\* The entry under id "1": the node the links of node "2" point to.
SourcePool ==
    {DictNode(TRUE, "Load", "dict", EmptyMap, FALSE, ""),
     DictNode(TRUE, "LoadImage", "dict", EmptyMap, FALSE, ""),
     DictNode(TRUE, "Blur", "dict", EmptyMap, FALSE, ""),
     DictNode(TRUE, "Nope", "dict", EmptyMap, FALSE, ""),
     DictNode(FALSE, "", "dict", EmptyMap, FALSE, ""),
     DictNode(TRUE, "Load", "absent", EmptyMap, FALSE, ""),
     OtherNode("str"),
     OtherNode("none")}

ValuePool ==
    [image |-> {Link(StrV(Id1), IntV(0)), Link(StrV(Id1), IntV(1)), Link(IntV(1), IntV(0)),
                Link(StrV(<<"9">>), IntV(0)), Link(StrV(Id1), StrV(<<"0">>)),
                Link(StrV(Id1), IntV(0 - 1)), Link(StrV(Id2), IntV(0)), Lit(IntV(5))},
     amount |-> {Lit(IntV(5)), Lit(IntV(50)), Lit(IntV(0 - 1)), Link(StrV(Id1), IntV(0))},
     mode |-> {Lit(StrV(<<"a">>)), Lit(StrV(<<"z">>)), Link(StrV(Id1), IntV(0))},
     any |-> {Link(StrV(Id1), IntV(0))}]

\* Input maps over at most two of the names.
InputsPool ==
    UNION {[names -> UNION {ValuePool[nm] : nm \in names}] :
              names \in {ns \in SUBSET DOMAIN ValuePool : Cardinality(ns) <= 2}}

TypedInputsPool == {m \in InputsPool : \A nm \in DOMAIN m : m[nm] \in ValuePool[nm]}

\* The entry under id "2".
TargetPool ==
    {DictNode(TRUE, ct, "dict", m, FALSE, "") :
        ct \in {"Blur", "Blur2", "Nope", ""}, m \in TypedInputsPool}
    \cup {DictNode(TRUE, "Blur", "absent", EmptyMap, FALSE, ""),
          DictNode(TRUE, "Blur", "other", EmptyMap, FALSE, ""),
          DictNode(FALSE, "", "dict", EmptyMap, FALSE, "")}

GraphPool ==
    {EmptyMap}
    \cup {[id \in {Id1} |-> src] : src \in SourcePool}
    \cup {[id \in {Id2} |-> tgt] : tgt \in TargetPool}
    \cup {[id \in {Id1, Id2} |-> IF id = Id1 THEN src ELSE tgt] :
             src \in SourcePool, tgt \in TargetPool}

Registry == [nodes |-> nodes, fetched |-> fetched]

InitValidate ==
    /\ \E reg \in RegistryPool :
          /\ nodes = reg.nodes
          /\ last_fetch = reg.last_fetch
          /\ fetched = reg.fetched
          /\ snapshot = reg.nodes
          /\ succeeded = reg.fetched
    /\ clock = StartClock
    /\ task = [t \in Tasks |-> [pc |-> "idle", now |-> 0]]
    /\ call = NoCall
    /\ workflow \in GraphPool
    /\ next_node_id = 1
    /\ op = NoOp
    /\ hist = NoHist
    /\ origin = NoOrigin
    /\ InitCheckIdle
    /\ InitExtractIdle

\* A validate whose inputs lookup is node_data.setdefault("inputs", {}): it
\* writes the missing inputs map into the node record it reads.
ValidateFillingInputs ==
    /\ result' = ValidateWorkflow(Registry, workflow)
    /\ workflow' = [id \in DOMAIN workflow |->
                        IF workflow[id].kind = "dict" /\ workflow[id].inputs_kind = "absent"
                        THEN [workflow[id] EXCEPT !.inputs_kind = "dict"]
                        ELSE workflow[id]]
    /\ UNCHANGED <<registryVars, next_node_id, op, hist, origin, self_check, rendered,
                   extractVars>>

\* validator.validate(workflow)
Validate ==
    /\ result' = ValidateWorkflow(Registry, workflow)
    /\ UNCHANGED <<registryVars, graphVars, self_check, rendered, extractVars>>

\* manipulator.validate()
RunSelfCheck ==
    /\ self_check' = SelfCheck(workflow)
    /\ UNCHANGED <<registryVars, graphVars, result, rendered, extractVars>>

\* result.format_for_agent() on the report validate returned
Format ==
    /\ result.done /\ ~result.raised
    /\ rendered' = [done |-> TRUE, lines |-> FormatForAgent(result.issues)]
    /\ UNCHANGED <<registryVars, graphVars, result, self_check, extractVars>>

NextValidate == Validate \/ RunSelfCheck \/ Format

SpecValidate == InitValidate /\ [][NextValidate]_vars

\* C4: validate returns a report for every workflow mapping and every
\* registry state and never raises.
ValidateNeverRaises == result.done => ~result.raised

\* C5: a report is valid exactly when it holds no issue of severity error,
\* and the issues of the type-compatibility, value-range and enumerated-choice
\* checks are warnings.
AdvisoryChecks == {"type_mismatch", "value_out_of_range", "invalid_combo_value"}

ValidIffNoErrors ==
    (result.done /\ ~result.raised) =>
        /\ result.valid <=> (\A i \in 1..Len(result.issues) :
                                result.issues[i].severity # "error")
        /\ \A i \in 1..Len(result.issues) :
              result.issues[i].check \in AdvisoryChecks =>
                  result.issues[i].severity = "warning"

\* C5 witness: a report whose issues are warnings of the three checks only,
\* a type mismatch among them, and which is valid.
ValidWithWarnings ==
    /\ result.done /\ ~result.raised /\ result.valid
    /\ \E i \in 1..Len(result.issues) : result.issues[i].check = "type_mismatch"
    /\ \A i \in 1..Len(result.issues) : result.issues[i].check \in AdvisoryChecks

\* C6: every issue of the manipulator's own check (missing class type,
\* missing inputs, link to an absent node) is reported for the same node by
\* validate, and the two agree on structural validity.
StructuralChecks ==
    {"invalid_structure", "missing_class_type", "missing_inputs", "link_invalid"}

Reported(e) ==
    \E i \in 1..Len(result.issues) :
        /\ result.issues[i].node_id = e.node_id
        /\ \/ result.issues[i].check = "invalid_structure"
           \/ e.kind = "missing_class_type" /\ result.issues[i].check = "missing_class_type"
           \/ e.kind = "missing_inputs" /\ result.issues[i].check = "missing_inputs"
           \/ /\ e.kind = "dangling"
              /\ result.issues[i].check = "link_invalid"
              /\ result.issues[i].input = e.input

SelfCheckWithinValidate ==
    (result.done /\ self_check.done /\ ~result.raised /\ ~self_check.raised) =>
        /\ \A j \in 1..Len(self_check.errors) : Reported(self_check.errors[j])
        /\ ~(~self_check.valid /\ result.valid)
        /\ ~(self_check.valid /\
             \E i \in 1..Len(result.issues) : result.issues[i].check \in StructuralChecks)

\* C11: for a non-empty workflow, when the registry is not loaded the report
\* is marked as not validated against the registry and holds only issues of
\* the structural checks; when it is loaded the report is marked as validated
\* against it and the registry checks have run for every node that is a record
\* (an unknown class type and a link to an absent node are reported for it).
ShapeChecks == {"invalid_structure", "missing_class_type", "missing_inputs"}

HasIssue(check, id) ==
    \E i \in 1..Len(result.issues) :
        result.issues[i].check = check /\ result.issues[i].node_id = id

RegistryGatesChecks ==
    (result.done /\ ~result.raised /\ DOMAIN workflow # {}) =>
        IF fetched /\ DOMAIN nodes # {}
        THEN /\ result.against_registry
             /\ \A id \in DOMAIN workflow :
                    (workflow[id].kind = "dict" /\ workflow[id].has_class_type) =>
                        /\ (workflow[id].class_type \notin DOMAIN nodes \cup {""}) =>
                               HasIssue("node_not_found", id)
                        /\ (\E nm \in DOMAIN workflow[id].inputs :
                               /\ IsLink(workflow[id].inputs[nm])
                               /\ StrOf(workflow[id].inputs[nm].e[1]) \notin DOMAIN workflow) =>
                               HasIssue("link_invalid", id)
        ELSE /\ ~result.against_registry
             /\ \A i \in 1..Len(result.issues) : result.issues[i].check \in ShapeChecks

\* C11 witness: a registry that was fetched but holds no entry, and a report
\* on a node of an unknown class type with a link to an absent node.
StructuralOnlyWhenNotLoaded ==
    /\ result.done /\ ~result.raised
    /\ fetched /\ DOMAIN nodes = {}
    /\ \E id \in DOMAIN workflow :
          /\ workflow[id].class_type = "Nope"
          /\ \E nm \in DOMAIN workflow[id].inputs :
                /\ IsLink(workflow[id].inputs[nm])
                /\ StrOf(workflow[id].inputs[nm].e[1]) \notin DOMAIN workflow

\* The number of issues of a check owned by a node.
IssueCount(check, id) ==
    Cardinality({i \in 1..Len(result.issues) :
                    result.issues[i].check = check /\ result.issues[i].node_id = id})

\* C12: with a loaded registry, every record node whose class type is a
\* string that is no key of the registry, the empty string included, owns
\* exactly one node_not_found error, a node whose class type is a key owns
\* none, and a workflow holding such a node is not reported valid.
UnknownClassTypeReported ==
    (result.done /\ ~result.raised /\ fetched /\ DOMAIN nodes # {}) =>
        /\ \A id \in DOMAIN workflow :
              (workflow[id].kind = "dict" /\ workflow[id].has_class_type) =>
                  /\ IssueCount("node_not_found", id) =
                         IF workflow[id].class_type \in DOMAIN nodes THEN 0 ELSE 1
                  /\ \A i \in 1..Len(result.issues) :
                         (result.issues[i].check = "node_not_found"
                          /\ result.issues[i].node_id = id) =>
                             result.issues[i].severity = "error"
        /\ (\E id \in DOMAIN workflow :
               /\ workflow[id].kind = "dict" /\ workflow[id].has_class_type
               /\ workflow[id].class_type \notin DOMAIN nodes) => ~result.valid

\* The number of issues of a check reported for one input of a node.
InputIssueCount(check, id, nm) ==
    Cardinality({i \in 1..Len(result.issues) :
                    /\ result.issues[i].check = check
                    /\ result.issues[i].node_id = id
                    /\ result.issues[i].input = nm})

\* The inputs of record nodes whose value is a link.
LinkInputs ==
    {<<id, nm>> \in (DOMAIN workflow) \X (DOMAIN ValuePool) :
        /\ workflow[id].kind = "dict"
        /\ workflow[id].inputs_kind = "dict"
        /\ nm \in DOMAIN workflow[id].inputs
        /\ IsLink(workflow[id].inputs[nm])}

\* C13: with a loaded registry, (a) a link whose source id is no node of the
\* workflow gets exactly one link_invalid error and no slot-range or
\* type-compatibility issue; (b) a link whose source node exists with a class
\* type of the registry gets a slot-range error exactly when its slot index
\* is at least the number of output types declared for that class type.
LinkAndSlotChecks ==
    (result.done /\ ~result.raised /\ fetched /\ DOMAIN nodes # {}) =>
        \A ln \in LinkInputs :
            LET value == workflow[ln[1]].inputs[ln[2]]
                src == StrOf(value.e[1])
            IN  /\ (src \notin DOMAIN workflow) =>
                       /\ InputIssueCount("link_invalid", ln[1], ln[2]) = 1
                       /\ InputIssueCount("output_slot_out_of_range", ln[1], ln[2]) = 0
                       /\ InputIssueCount("type_mismatch", ln[1], ln[2]) = 0
                /\ (/\ src \in DOMAIN workflow
                    /\ workflow[src].kind = "dict"
                    /\ workflow[src].has_class_type
                    /\ workflow[src].class_type \in DOMAIN nodes
                    /\ value.e[2].t = "int") =>
                       /\ InputIssueCount("link_invalid", ln[1], ln[2]) = 0
                       /\ (InputIssueCount("output_slot_out_of_range", ln[1], ln[2]) = 1
                           <=> value.e[2].n >= Len(nodes[workflow[src].class_type].output_types))
                       /\ InputIssueCount("output_slot_out_of_range", ln[1], ln[2]) <= 1

\* C13 witness: a report on a link whose slot index equals the number of
\* outputs of its source (slot 1 of a Load node, which has one output).
SlotAtOutputCount ==
    /\ result.done /\ ~result.raised /\ fetched
    /\ \E ln \in LinkInputs :
          LET value == workflow[ln[1]].inputs[ln[2]]
              src == StrOf(value.e[1])
          IN  /\ src \in DOMAIN workflow
              /\ workflow[src].class_type = "Load"
              /\ "Load" \in DOMAIN nodes
              /\ value.e[2] = IntV(Len(nodes["Load"].output_types))
              /\ InputIssueCount("output_slot_out_of_range", ln[1], ln[2]) = 1

\* The tag the registry declares for input nm of a class type, <<>> if none.
DeclaredInput(class_type, nm) ==
    IF class_type \notin DOMAIN nodes THEN <<>>
    ELSE IF nm \in DOMAIN nodes[class_type].inputs_required
    THEN <<nodes[class_type].inputs_required[nm].type>>
    ELSE IF nm \in DOMAIN nodes[class_type].inputs_optional
    THEN <<nodes[class_type].inputs_optional[nm].type>>
    ELSE <<>>

\* The tag the registry declares for output slot of a class type, <<>> if none.
DeclaredOutput(class_type, slot) ==
    IF class_type \notin DOMAIN nodes THEN <<>>
    ELSE IF slot >= 0 /\ slot < Len(nodes[class_type].output_types)
    THEN <<nodes[class_type].output_types[slot + 1]>>
    ELSE <<>>

\* The declared tags a link joins: <<output tag, input tag>>, <<>> unless the
\* source node exists and both tags are declared.
JoinedTags(id, nm) ==
    LET value == workflow[id].inputs[nm]
        src == StrOf(value.e[1])
    IN  IF /\ src \in DOMAIN workflow
           /\ workflow[src].kind = "dict"
           /\ workflow[src].has_class_type
           /\ workflow[id].has_class_type
        THEN LET o == DeclaredOutput(workflow[src].class_type, value.e[2].n)
                 e == DeclaredInput(workflow[id].class_type, nm)
             IN  IF o # <<>> /\ e # <<>> THEN <<o[1], e[1]>> ELSE <<>>
        ELSE <<>>

\* C14: with a loaded registry, a type_mismatch issue is reported for a link
\* input exactly when the source node exists, the registry declares an output
\* type at the slot of the source's class type and the target input for the
\* target's class type, neither tag is "*" and the tags differ; its severity
\* is warning.
TypeCompatibilityCheck ==
    (result.done /\ ~result.raised /\ fetched /\ DOMAIN nodes # {}) =>
        /\ \A ln \in LinkInputs :
              workflow[ln[1]].inputs[ln[2]].e[2].t = "int" =>
                  LET tags == JoinedTags(ln[1], ln[2])
                  IN  InputIssueCount("type_mismatch", ln[1], ln[2]) =
                         IF tags # <<>> /\ tags[1] # "*" /\ tags[2] # "*" /\ tags[1] # tags[2]
                         THEN 1 ELSE 0
        /\ \A i \in 1..Len(result.issues) :
              result.issues[i].check = "type_mismatch" => result.issues[i].severity = "warning"

\* C14 witness: a report on a link from an output declared "*" into an input
\* declared with another tag.
WildcardOutputLinked ==
    /\ result.done /\ ~result.raised /\ fetched
    /\ \E ln \in LinkInputs :
          /\ workflow[ln[1]].inputs[ln[2]].e[2].t = "int"
          /\ JoinedTags(ln[1], ln[2]) = <<"*", "IMAGE">>

\* The keys of a node's input map (none when the node has no inputs).
InputKeys(id) ==
    IF workflow[id].inputs_kind = "dict" THEN DOMAIN workflow[id].inputs ELSE {}

\* C15: with a loaded registry, a node whose class type is in the registry
\* owns as many required_input_missing errors as there are names in the
\* required set of its class type that are no keys of its input map; a name
\* present with any value is not reported, nor is an optional input.
RequiredInputsCheck ==
    (result.done /\ ~result.raised /\ fetched /\ DOMAIN nodes # {}) =>
        \A id \in DOMAIN workflow :
            (/\ workflow[id].kind = "dict"
             /\ workflow[id].has_class_type
             /\ workflow[id].class_type \in DOMAIN nodes) =>
                LET required == DOMAIN nodes[workflow[id].class_type].inputs_required
                IN  /\ IssueCount("required_input_missing", id) =
                           Cardinality(required \ InputKeys(id))
                    /\ \A nm \in required \ InputKeys(id) :
                           InputIssueCount("required_input_missing", id, nm) = 1
                    /\ \A i \in 1..Len(result.issues) :
                           (result.issues[i].check = "required_input_missing"
                            /\ result.issues[i].node_id = id) =>
                               result.issues[i].severity = "error"

\* C15 witness: a report on a Blur node whose required input image is a link
\* to an absent node and whose required input amount and optional inputs are
\* absent.
RequiredMissingBesideDanglingLink ==
    /\ result.done /\ ~result.raised /\ fetched /\ DOMAIN nodes # {}
    /\ \E id \in DOMAIN workflow :
          /\ workflow[id].class_type = "Blur"
          /\ InputKeys(id) = {"image"}
          /\ IsLink(workflow[id].inputs["image"])
          /\ StrOf(workflow[id].inputs["image"].e[1]) \notin DOMAIN workflow
          /\ IssueCount("required_input_missing", id) = 1

\* C16: for the empty workflow and every registry state, validate returns a
\* report that is not valid and holds exactly one issue, of check
\* empty_workflow and severity error.
EmptyWorkflowRejected ==
    (result.done /\ DOMAIN workflow = {}) =>
        /\ ~result.raised
        /\ ~result.valid
        /\ Len(result.issues) = 1
        /\ result.issues[1].check = "empty_workflow"
        /\ result.issues[1].severity = "error"

\* C16 witness: the report on the empty workflow with a loaded registry.
EmptyWorkflowAgainstLoadedRegistry ==
    result.done /\ DOMAIN workflow = {} /\ fetched /\ DOMAIN nodes # {}

(***************************************************************************)
(* Specification of the manipulator: a WorkflowManipulator and the calls   *)
(* made on it                                                              *)
(***************************************************************************)
MaxAdds == 2

IdA == <<"a">>
Id5 == <<"5">>

LoadNodeJson == JValue("object", <<>>, 0,
    <<Member("class_type", JValue("string", "Load", 0, <<>>)),
      Member("inputs", JValue("object", <<>>, 0, <<>>))>>)

\* {"1": Load, "a": Load}: a numeric and a non-numeric id
DocMixed == JValue("object", <<>>, 0, <<Member(Id1, LoadNodeJson), Member(IdA, LoadNodeJson)>>)

\* {"1": Load, "2": Load, "5": Load}
DocGap == JValue("object", <<>>, 0,
    <<Member(Id1, LoadNodeJson), Member(Id2, LoadNodeJson), Member(Id5, LoadNodeJson)>>)

\* {"1": {"class_type": "Blur"}, "2": "junk"}: a record without inputs and
\* an entry that is not a record
DocBroken == JValue("object", <<>>, 0,
    <<Member(Id1, JValue("object", <<>>, 0,
                         <<Member("class_type", JValue("string", "Blur", 0, <<>>))>>)),
      Member(Id2, JValue("string", <<"j", "u", "n", "k">>, 0, <<>>))>>)

LoadPool == {DocMixed, DocGap, DocBroken}

RemovePool == {Id1, Id2}
TargetIds == {Id1, <<"9">>}
SourcePoolIds == {IntV(2), StrV(Id2)}
SlotPool == {0, 0 - 1}
NamePool == {"image"}
\* The arguments of add_node: no inputs and no title, or a link and a title.
AddPool ==
    {[class_type |-> "Load", inputs |-> EmptyMap, title |-> ""],
     [class_type |-> "Blur", inputs |-> [nm \in NamePool |-> Link(IntV(2), IntV(0))],
      title |-> "Pic"]}
ModifyPool == {Lit(StrV(<<"a">>)), Link(StrV(Id1), IntV(0))}

Loaded(wf, built) ==
    [built |-> built, numeric |-> Numeric(wf), top |-> Top(wf), adds |-> 0]

\* WorkflowManipulator(workflow): line 20 copies the mapping, line 21
\* computes the next id.
InitGraph ==
    /\ workflow \in {EmptyMap, Loads(DocMixed)}
    /\ next_node_id = CalculateNextId(workflow)
    /\ op = NoOp
    /\ hist = Loaded(workflow, workflow = EmptyMap)
    /\ origin = NoOrigin

Init ==
    /\ InitRegistry
    /\ InitGraph
    /\ InitCheckIdle
    /\ InitExtractIdle

\* add_node(class_type, inputs, title); each call is given an inputs mapping
\* of its own.
AddNode(class_type, inputs, title) ==
    /\ hist.adds < MaxAdds
    /\ LET node_id == PyStr(next_node_id)
           node == DictNode(TRUE, class_type, "dict", inputs, TRUE,
                            IF title # "" THEN title ELSE class_type)
       IN  /\ workflow' = [id \in DOMAIN workflow \cup {node_id} |->
                              IF id = node_id THEN node ELSE workflow[id]]
           /\ op' = Called("add", "id", node_id)
    /\ next_node_id' = next_node_id + 1
    /\ hist' = [hist EXCEPT !.adds = @ + 1,
                            !.top = IF next_node_id > @ THEN next_node_id ELSE @]

\* Any id counts as held as long as the graph has nodes.
HoldsSome(wf, node_id) == DOMAIN wf # {}

\* remove_node line 68: `node_id in self.workflow`
Holds(wf, node_id) == node_id \in DOMAIN wf

\* remove_node(node_id)
RemoveNode(node_id) ==
    /\ IF ~Holds(workflow, node_id)
       THEN /\ op' = Called("remove", "false", node_id)
            /\ UNCHANGED workflow
       ELSE LET after == RemoveFrom(workflow, node_id)
            IN  /\ workflow' = after.workflow
                /\ op' = Called("remove", IF after.raised THEN "raise" ELSE "true", node_id)
    /\ UNCHANGED <<next_node_id, hist>>

\* connect_nodes(source_node_id, source_output_slot, target_node_id, name)
ConnectNodes(source, slot, target, name) ==
    /\ IF target \notin DOMAIN workflow
       THEN /\ op' = Called("connect", "false", target)
            /\ UNCHANGED workflow
       ELSE IF SetInputRaises(workflow[target])
       THEN /\ op' = Called("connect", "raise", target)
            /\ UNCHANGED workflow
       ELSE /\ workflow' = SetInput(workflow, target, name, Link(source, IntV(slot)))
            /\ op' = Called("connect", "true", target)
    /\ UNCHANGED <<next_node_id, hist>>

\* modify_input(node_id, input_name, value)
ModifyInput(node_id, name, value) ==
    /\ IF node_id \notin DOMAIN workflow
       THEN /\ op' = Called("modify", "false", node_id)
            /\ UNCHANGED workflow
       ELSE IF SetInputRaises(workflow[node_id])
       THEN /\ op' = Called("modify", "raise", node_id)
            /\ UNCHANGED workflow
       ELSE /\ workflow' = SetInput(workflow, node_id, name, value)
            /\ op' = Called("modify", "true", node_id)
    /\ UNCHANGED <<next_node_id, hist>>

\* from_json(json_str) of a document from elsewhere
FromJson(doc) ==
    /\ workflow' = Loads(doc)
    /\ next_node_id' = CalculateNextId(Loads(doc))
    /\ op' = Called("load", "none", <<>>)
    /\ hist' = Loaded(Loads(doc), FALSE)

\* from_json(to_json()): the graph built so far is written out and read back
Reload ==
    /\ hist.built
    /\ workflow' = Loads(ToJson(workflow))
    /\ next_node_id' = CalculateNextId(Loads(ToJson(workflow)))
    /\ op' = Called("reload", "none", <<>>)
    /\ hist' = Loaded(Loads(ToJson(workflow)), FALSE)

Next ==
    \/ \E a \in AddPool :
          AddNode(a.class_type, a.inputs, a.title) /\ UNCHANGED <<origin, registryVars, checkVars, extractVars>>
    \/ \E id \in RemovePool : RemoveNode(id) /\ UNCHANGED <<origin, registryVars, checkVars, extractVars>>
    \/ \E src \in SourcePoolIds, slot \in SlotPool, target \in TargetIds, name \in NamePool :
          ConnectNodes(src, slot, target, name) /\ UNCHANGED <<origin, registryVars, checkVars, extractVars>>
    \/ \E id \in TargetIds, name \in NamePool, value \in ModifyPool :
          ModifyInput(id, name, value) /\ UNCHANGED <<origin, registryVars, checkVars, extractVars>>
    \/ \E doc \in LoadPool : FromJson(doc) /\ UNCHANGED <<origin, registryVars, checkVars, extractVars>>
    \/ Reload /\ UNCHANGED <<origin, registryVars, checkVars, extractVars>>

Spec == Init /\ [][Next]_vars

\* C7: the id add_node returns was no key of the graph before the call, the
\* node count grows by one and no existing node is replaced.
AddNodeAllocatesFreshId ==
    op.name = "add" =>
        /\ op.id \notin DOMAIN op.pre
        /\ Cardinality(DOMAIN workflow) = Cardinality(DOMAIN op.pre) + 1
        /\ \A id \in DOMAIN op.pre : id \in DOMAIN workflow /\ workflow[id] = op.pre[id]

\* C8 as stated: with integer-valued ids, add_node returns the decimal string
\* of the maximum id present in the graph plus one (0 for the empty graph).
NextIdIsMaxPresentPlusOne ==
    (op.name = "add" /\ hist.numeric) => op.id = PyStr(Top(op.pre) + 1)

\* C8 as amended: with integer-valued ids, add_node returns the decimal
\* string of one more than the largest id the graph has held since it was
\* constructed or loaded (0 if none), whether or not that node is still there.
NextIdIsMaxHeldPlusOne ==
    (op.name = "add" /\ hist.numeric) => op.id = PyStr(op.pre_top + 1)

\* C8 witness: add_node after the highest-numbered node was removed.
AddAfterRemovingHighest ==
    op.name = "add" /\ hist.numeric /\ Top(op.pre) < op.pre_top

\* C9: right after remove_node(x) returned True, x is no node of the graph
\* and no remaining node has an input that is a link whose source is x,
\* whether the source was stored as a string or as a number.
LinksTo(wf, x) ==
    {<<id, nm>> \in (DOMAIN wf) \X NamePool :
        /\ wf[id].kind = "dict"
        /\ nm \in DOMAIN wf[id].inputs
        /\ IsLink(wf[id].inputs[nm])
        /\ StrOf(wf[id].inputs[nm].e[1]) = x}

RemoveLeavesNoLink ==
    (op.name = "remove" /\ op.ret = "true") =>
        /\ op.id \notin DOMAIN workflow
        /\ LinksTo(workflow, op.id) = {}

\* C9 witness: the removed node was the source of a link stored as a number.
RemovedLinkedByNumber ==
    /\ op.name = "remove" /\ op.ret = "true"
    /\ \E ln \in LinksTo(op.pre, op.id) :
          ln[1] # op.id /\ op.pre[ln[1]].inputs[ln[2]].e[1].t = "int"

\* C10: a graph built from the empty graph by add_node, remove_node,
\* connect_nodes and modify_input is equal to from_json(to_json()) of itself.
RoundTrip == hist.built => Loads(ToJson(workflow)) = workflow

\* C10 witness: a built graph holding a titled node and a link whose source
\* is a number and whose slot is negative.
RoundTripOfLinkedGraph ==
    /\ hist.built
    /\ \E id \in DOMAIN workflow :
          /\ workflow[id].title = "Pic"
          /\ "image" \in DOMAIN workflow[id].inputs
          /\ IsLink(workflow[id].inputs["image"])
          /\ workflow[id].inputs["image"].e[1].t = "int"
          /\ workflow[id].inputs["image"].e[2].n < 0

\* C18: remove_node of an id that is no node of the graph returns False and
\* leaves the graph and the next id as they were; a second removal of an id
\* removed before is such a call.
RemoveAbsentChangesNothing ==
    op.name = "remove" =>
        /\ (op.id \notin DOMAIN op.pre) =>
               /\ op.ret = "false"
               /\ workflow = op.pre
               /\ next_node_id = op.pre_next
        /\ (op.id \in DOMAIN op.pre) => op.ret # "false"

\* C18 witness: in a graph built by the manipulator, remove_node returned
\* False for an id that had been allocated and removed before.
RemovedTwice ==
    /\ op.name = "remove" /\ op.ret = "false"
    /\ hist.built
    /\ PyInt(op.id).v <= op.pre_top

\* C19: connect_nodes returns True exactly when the target id is a node of
\* the graph, whatever the source, the slot and the shape of the target
\* record, and never raises; on True the named input of the target is the
\* link (source, slot) and every other input and node is as before; on False
\* the graph is as before.
ConnectSucceedsIffTargetHeld ==
    op.name = "connect" =>
        /\ op.ret # "raise"
        /\ op.ret = "true" <=> op.id \in DOMAIN op.pre
        /\ op.ret = "false" => workflow = op.pre
        /\ op.ret = "true" =>
               /\ DOMAIN workflow = DOMAIN op.pre
               /\ \A id \in DOMAIN workflow \ {op.id} : workflow[id] = op.pre[id]
               /\ \E nm \in NamePool :
                     /\ IsLink(workflow[op.id].inputs[nm])
                     /\ \A other \in DOMAIN workflow[op.id].inputs \ {nm} :
                            /\ other \in DOMAIN op.pre[op.id].inputs
                            /\ workflow[op.id].inputs[other] = op.pre[op.id].inputs[other]

(***************************************************************************)
(* Specification of the extraction: one response text, searched by         *)
(* extract_workflow_from_response                                          *)
(***************************************************************************)
MaxParts == 2

\* {"1": Load} and {"2": Load}: workflows
DocOne == JValue("object", <<>>, 0, <<Member(Id1, LoadNodeJson)>>)
DocTwo == JValue("object", <<>>, 0, <<Member(Id2, LoadNodeJson)>>)
\* {"1": {"inputs": {}}}: a mapping without a class_type anywhere
DocFlat == JValue("object", <<>>, 0,
    <<Member(Id1, JValue("object", <<>>, 0,
                         <<Member("inputs", JValue("object", <<>>, 0, <<>>))>>))>>)
\* []: parses, but is no mapping
DocArray == JValue("array", <<>>, 0, <<>>)

BodyPool == {JsonText(DocOne), JsonText(DocTwo), JsonText(DocFlat), JsonText(DocArray), Words}

\* A part of a response: text outside fences, or a fenced block without an
\* info string, tagged json, or tagged python.
Part(fence, body) == [fence |-> fence, body |-> body]

PartPool == {Part(f, b) : f \in {"none", "bare", "json", "python"}, b \in BodyPool}

PartText(part) ==
    CASE part.fence = "none" -> <<part.body>>
      [] part.fence = "bare" -> <<Fence, part.body, Fence>>
      [] OTHER -> <<Fence, Info(part.fence), part.body, Fence>>

TextOf(parts) == Flatten([i \in 1..Len(parts) |-> PartText(parts[i])])

TextPool == {TextOf(parts) : parts \in UNION {[1..k -> PartPool] : k \in 0..MaxParts}}

InitExtract ==
    /\ InitRegistry
    /\ InitGraphIdle
    /\ InitCheckIdle
    /\ response \in TextPool
    /\ extracted = NoExtract

\* WorkflowManipulator.extract_workflow_from_response(response)
Extract ==
    /\ extracted' = ExtractWorkflowFromResponse(response)
    /\ UNCHANGED <<registryVars, graphVars, checkVars, response>>

NextExtract == Extract

SpecExtract == InitExtract /\ [][NextExtract]_vars

\* The text enclosed in a fenced block: what follows its info string.
Enclosed(capture) ==
    IF capture # <<>> /\ capture[1].kind = "info" THEN Tail(capture) ELSE capture

\* C20: the candidates are the texts enclosed in the fenced blocks tagged
\* json, in text order, then the texts enclosed in every fenced block, in
\* text order, then the whole text; the extraction returns the data of the
\* first candidate that parses and is a mapping with a value that is a
\* mapping holding a class_type key, and nothing exactly when there is none.
ExtractTakesFirstQualifyingCandidate ==
    extracted.done =>
        LET blocks == FindAllFenced(response)
            tagged == SelectSeq(blocks,
                          LAMBDA b : b # <<>> /\ b[1] = Info("json"))
            candidates ==
                [i \in 1..Len(tagged) |-> Enclosed(tagged[i])]
                \o [i \in 1..Len(blocks) |-> Enclosed(blocks[i])]
                \o <<response>>
            first == FirstWorkflow(candidates)
        IN  /\ extracted.found <=> first # 0
            /\ first # 0 => extracted.data = JsonLoads(candidates[first]).data

(***************************************************************************)
(* The scenario of a LoadImage node feeding a Blur node                    *)
(***************************************************************************)
ScenarioNodes == Install(PayloadScenario, StartClock, NeverFetched).nodes

\* {"1": LoadImage, "2": class_type with image = ["1", slot]}
ScenarioGraph(class_type, slot) ==
    [id \in {Id1, Id2} |->
        IF id = Id1 THEN DictNode(TRUE, "LoadImage", "dict", EmptyMap, FALSE, "")
        ELSE DictNode(TRUE, class_type, "dict",
                      [nm \in {"image"} |-> Link(StrV(Id1), IntV(slot))], FALSE, "")]

\* C21: against the registry {LoadImage, Blur requiring image: IMAGE}, the
\* graph {"1": LoadImage, "2": Blur with image = ["1", 0]} is valid without
\* any issue; with the link ["1", 1] the report holds exactly one issue, an
\* output_slot_out_of_range error; with the class type Blur2 it holds exactly
\* one issue, a node_not_found error with the suggestion Blur.
LoadImageBlurScenario ==
    (result.done /\ fetched /\ nodes = ScenarioNodes) =>
        /\ workflow = ScenarioGraph("Blur", 0) =>
               ~result.raised /\ result.valid /\ result.issues = <<>>
        /\ workflow = ScenarioGraph("Blur", 1) =>
               /\ ~result.raised /\ ~result.valid
               /\ Len(result.issues) = 1
               /\ result.issues[1].check = "output_slot_out_of_range"
               /\ result.issues[1].severity = "error"
               /\ result.issues[1].node_id = Id2
        /\ workflow = ScenarioGraph("Blur2", 0) =>
               /\ ~result.raised /\ ~result.valid
               /\ Len(result.issues) = 1
               /\ result.issues[1].check = "node_not_found"
               /\ result.issues[1].severity = "error"
               /\ result.issues[1].node_id = Id2
               /\ result.issues[1].suggestion = "Blur"

\* C21 witness: the report on the scenario graph with the class type Blur2.
UnknownBlur2Reported ==
    /\ result.done /\ fetched /\ nodes = ScenarioNodes
    /\ workflow = ScenarioGraph("Blur2", 0)

\* C22: in a graph built from the empty graph by add_node, connect_nodes,
\* modify_input and remove_node, the slot index of every link is an integer
\* that is not negative.
StoredSlotsNonNegative ==
    hist.built =>
        \A id \in DOMAIN workflow :
            \A nm \in DOMAIN workflow[id].inputs :
                IsLink(workflow[id].inputs[nm]) =>
                    /\ workflow[id].inputs[nm].e[2].t = "int"
                    /\ workflow[id].inputs[nm].e[2].n >= 0

AnswerPool == {PayloadSmall, PayloadOther}

\* The suspended fetch() of task t resumes: lines 69-82.
Resume(t) ==
    \/ FetchFail(t) /\ UNCHANGED <<graphVars, checkVars, extractVars>>
    \/ \E data \in AnswerPool :
          FetchInstall(t, data) /\ UNCHANGED <<graphVars, checkVars, extractVars>>

\* A fetch() step of task t that is not a resumption: lines 59-68.
Begin(t) ==
    \/ FetchCached(t) /\ UNCHANGED <<graphVars, checkVars, extractVars>>
    \/ FetchRequest(t) /\ UNCHANGED <<graphVars, checkVars, extractVars>>

AddStep ==
    \E a \in AddPool :
        AddNode(a.class_type, a.inputs, a.title)
            /\ UNCHANGED <<origin, registryVars, checkVars, extractVars>>

NextService ==
    \/ \E t \in Tasks : Begin(t)
    \/ \E t \in Tasks : Resume(t)
    \/ Tick /\ UNCHANGED <<graphVars, checkVars, extractVars>>
    \/ Validate
    \/ AddStep

\* ClientTimeout(total=10), line 67: a suspended request ends, by an answer
\* or by the timeout.
SpecService ==
    InitCatalog /\ [][NextService]_vars /\ \A t \in Tasks : WF_vars(Resume(t))

\* While a fetch() is suspended the other fetch() and add_node can each
\* take their step (validate has no precondition at all).
NothingWaitsForFetch ==
    \A t \in Tasks :
        task[t].pc = "await" =>
            /\ hist.adds < MaxAdds => ENABLED AddStep
            /\ \A u \in Tasks \ {t} : ENABLED (Begin(u) \/ Resume(u))

\* No fetch() stays suspended for ever.
NoFetchSuspendedForever ==
    \A t \in Tasks : (task[t].pc = "await") ~> (task[t].pc = "idle")

\* Every fetch() that has ended returned True or False.
FetchEndsWithBoolean ==
    call.kind \in {"cached", "fail", "install"} => call.ret \in {"true", "false"}

\* C24: every fetch() eventually ends, with True or False, and a suspended
\* fetch() keeps no other fetch(), validate or graph mutation from taking its
\* step.
RefreshCompletes ==
    /\ NoFetchSuspendedForever
    /\ []FetchEndsWithBoolean
    /\ []NothingWaitsForFetch

\* C25: whatever the interleaving of concurrent fetch() calls, the recorded
\* timestamp never decreases, and no fetch() that started before the one
\* whose response is installed replaces the installed entries by its own.
NewestFetchStaysInstalled ==
    [][/\ last_fetch' >= last_fetch
       /\ (call' # call /\ call'.kind = "install" /\ call'.ret = "true" /\ fetched)
              => call'.now >= last_fetch
      ]_vars

\* The InputSpec get_input_type resolves a name to: the required one first.
ResolvedSpec(node_def, nm) ==
    IF nm \in DOMAIN node_def.inputs_required THEN node_def.inputs_required[nm]
    ELSE node_def.inputs_optional[nm]

\* The literal inputs of record nodes of a registered class, under a name
\* the class declares.
DeclaredLiterals ==
    {<<id, nm>> \in (DOMAIN workflow) \X (DOMAIN ValuePool) :
        /\ workflow[id].kind = "dict"
        /\ workflow[id].inputs_kind = "dict"
        /\ ClassTypeOf(workflow[id]) \in DOMAIN nodes
        /\ nm \in DOMAIN workflow[id].inputs
        /\ workflow[id].inputs[nm].k = "lit"
        /\ GetInputType(Registry, ClassTypeOf(workflow[id]), nm).found}

\* C26: the value-range and choice checks judge an input against the
\* InputSpec get_input_type resolves its name to (required first), also
\* when the name is declared as required and as optional: the warnings on
\* a literal are those that spec calls for.
ChecksShareResolvedSpec ==
    (result.done /\ ~result.raised /\ IsLoaded(Registry)) =>
        \A p \in DeclaredLiterals :
            LET id == p[1]
                nm == p[2]
                v == workflow[id].inputs[nm].e[1]
                class_type == ClassTypeOf(workflow[id])
                S == ResolvedSpec(nodes[class_type], nm)
                B(c) == IF c THEN 1 ELSE 0
            IN  /\ S.type = GetInputType(Registry, class_type, nm).type
                /\ InputIssueCount("value_out_of_range", id, nm) =
                      IF S.type \in {"INT", "FLOAT"} /\ v.t = "int"
                      THEN B(S.has_min /\ v.n < S.min_val) + B(S.has_max /\ v.n > S.max_val)
                      ELSE 0
                /\ InputIssueCount("invalid_combo_value", id, nm) =
                      B(/\ S.type = "COMBO" /\ S.options # {}
                        /\ v.t = "str" /\ v.s \notin S.options)

\* The link under input nm of node id resolves: its source is a record node
\* of a registered class and get_output_type finds a type at its slot.
LinkResolves(id, nm) ==
    LET value == workflow[id].inputs[nm]
        source == StrOf(value.e[1])
    IN  /\ source \in DOMAIN workflow
        /\ workflow[source].kind = "dict"
        /\ ClassTypeOf(workflow[source]) \in DOMAIN nodes
        /\ value.e[2].t = "int"
        /\ GetOutputType(Registry, ClassTypeOf(workflow[source]), value.e[2]).found

\* C27: in a graph that validate reports valid against a loaded registry
\* every link resolves; no link with a negative slot or a slot at or past the
\* output count is left.
ValidGraphLinksResolve ==
    (result.done /\ ~result.raised /\ IsLoaded(Registry) /\ result.valid) =>
        \A p \in LinkInputs : LinkResolves(p[1], p[2])

HasLine(kind) == \E i \in 1..Len(rendered.lines) : rendered.lines[i].kind = kind

\* C28: format_for_agent gives the passed text exactly for a valid report,
\* gives the closing fix-all-errors line only for a report with at least one
\* error, and puts every error line before every warning line.
RenderingFollowsValidity ==
    rendered.done =>
        /\ HasLine("passed") <=> result.valid
        /\ HasLine("trailer") => Len(Errors(result.issues)) >= 1
        /\ \A i, j \in 1..Len(rendered.lines) :
              (rendered.lines[i].kind = "error" /\ rendered.lines[j].kind = "warning")
                  => i < j

(***************************************************************************)
(* Specification of a manipulator constructed from a workflow the caller   *)
(* keeps: WorkflowManipulator(workflow) and the calls that follow          *)
(***************************************************************************)
\* {"1": Load, "2": Blur whose image is linked to "1"}
LinkedPair ==
    [id \in {Id1, Id2} |->
        IF id = Id1 THEN DictNode(TRUE, "Load", "dict", EmptyMap, FALSE, "")
        ELSE DictNode(TRUE, "Blur", "dict", [nm \in NamePool |-> Link(StrV(Id1), IntV(0))],
                      FALSE, "")]

ConstructPool == {Loads(DocMixed), LinkedPair}

\* Line 20, workflow.copy(): a new mapping whose values are the caller's own
\* node records, every one of them shared.
Constructed(wf) ==
    [tracked |-> TRUE, passed |-> wf, now |-> wf, shared |-> DOMAIN wf, freed |-> {},
     added |-> <<>>]

InitConstructed ==
    /\ InitRegistry
    /\ workflow \in ConstructPool
    /\ next_node_id = CalculateNextId(workflow)
    /\ op = NoOp
    /\ hist = Loaded(workflow, FALSE)
    /\ origin = Constructed(workflow)
    /\ InitCheckIdle
    /\ InitExtractIdle

\* The caller's mapping after a call: it keeps its keys, and a record still
\* shared is the object the manipulator has written to.
CallerSees(shared) ==
    [id \in DOMAIN origin.now |-> IF id \in shared THEN workflow'[id] ELSE origin.now[id]]

\* add_node: line 51 binds the id to a new record in the copy.
AddTracked ==
    \E a \in AddPool :
        /\ AddNode(a.class_type, a.inputs, a.title)
        /\ LET shared == origin.shared \ {PyStr(next_node_id)}
           IN  origin' = [origin EXCEPT !.shared = shared, !.now = CallerSees(shared),
                                        !.added = Append(@, PyInt(PyStr(next_node_id)).v)]
        /\ UNCHANGED <<registryVars, checkVars, extractVars>>

\* remove_node: line 71 deletes the key of the copy, lines 74-79 delete
\* inputs of the records left.
RemoveTracked ==
    \E id \in RemovePool :
        /\ RemoveNode(id)
        /\ LET held == Holds(workflow, id)
               shared == IF held THEN origin.shared \ {id} ELSE origin.shared
           IN  origin' = [origin EXCEPT !.shared = shared, !.now = CallerSees(shared),
                                        !.freed = IF held THEN @ \cup {id} ELSE @]
        /\ UNCHANGED <<registryVars, checkVars, extractVars>>

\* connect_nodes: line 104 writes into the inputs map of the target record.
ConnectTracked ==
    \E src \in SourcePoolIds, slot \in SlotPool, target \in TargetIds, name \in NamePool :
        /\ ConnectNodes(src, slot, target, name)
        /\ origin' = [origin EXCEPT !.now = CallerSees(origin.shared)]
        /\ UNCHANGED <<registryVars, checkVars, extractVars>>

\* modify_input: line 129 writes into the inputs map of the record.
ModifyTracked ==
    \E id \in TargetIds, name \in NamePool, value \in ModifyPool :
        /\ ModifyInput(id, name, value)
        /\ origin' = [origin EXCEPT !.now = CallerSees(origin.shared)]
        /\ UNCHANGED <<registryVars, checkVars, extractVars>>

NextConstructed == AddTracked \/ RemoveTracked \/ ConnectTracked \/ ModifyTracked

SpecConstructed == InitConstructed /\ [][NextConstructed]_vars

\* C29: since construction, the ids add_node returns are consecutive
\* increasing integers whatever remove_node, connect_nodes and modify_input
\* calls come between; an id remove_node has freed is not returned again;
\* remove_node, connect_nodes and modify_input leave the counter as it was.
AllocationCountsUp ==
    origin.tracked =>
        /\ \A i \in 2..Len(origin.added) : origin.added[i] = origin.added[i - 1] + 1
        /\ op.name = "add" => (op.id \notin origin.freed /\ next_node_id = op.pre_next + 1)
        /\ op.name \in {"remove", "connect", "modify"} => next_node_id = op.pre_next

\* C30: the mapping given to the constructor, its node records and their
\* inputs maps are, for the caller, as they were when it passed them,
\* whatever add_node, remove_node, connect_nodes and modify_input calls
\* followed.
CallerMappingUntouched == origin.tracked => origin.now = origin.passed

====
